---- MODULE Spec2Model ----
(***************************************************************************)
(* CrazyCast.__call__ (benchmark/baselines/crazycast.py): the rejection-   *)
(* sampling loop that asks a completion client for batches of candidate    *)
(* forecasts, parses each candidate, keeps the valid ones and stops when   *)
(* n_samples forecasts are collected or the retry budget is used up.       *)
(***************************************************************************)
EXTENDS Integers, Sequences, FiniteSets, TLC

(* ------------------------------ bounds --------------------------------- *)
MaxSamples == 2
MaxBatch == 3
MaxRetries == 2
MaxChoices == 2

(* Python's None for the optional integers batch_size and max_batch_size;  *)
(* the configured sizes themselves are naturals.                           *)
NoneVal == -1

Min(a, b) == IF a <= b THEN a ELSE b
Max(a, b) == IF a >= b THEN a ELSE b

(* Python truthiness of an optional integer: None and 0 are falsy.         *)
Truthy(x) == x # NoneVal /\ x # 0

(* ------------------------- candidate texts ----------------------------- *)
(* A raw completion text is modelled by the list of its <forecast> blocks; *)
(* a block is the list of its lines, a line the list of its comma-         *)
(* separated fields (parentheses already removed).                         *)
future_time == <<"t1", "t2">>

FloatTable == ("1" :> 1) @@ ("2" :> 2) @@ (" 1" :> 1)

QuoteTable == ("'t1'" :> "t1") @@ ("'t2'" :> "t2")

StripQuotes(s) == IF s \in DOMAIN QuoteTable THEN QuoteTable[s] ELSE s

LineOk(x) == Len(x) >= 2 /\ x[2] \in DOMAIN FloatTable

ForecastDict(lines) ==
    LET keys == {StripQuotes(lines[i][1]) : i \in DOMAIN lines}
        last(k) == CHOOSE i \in DOMAIN lines :
                      /\ StripQuotes(lines[i][1]) = k
                      /\ \A j \in DOMAIN lines :
                            StripQuotes(lines[j][1]) = k => j <= i
    IN  [k \in keys |-> FloatTable[lines[last(k)][2]]]

(* extract_html_tags(content, ["forecast"])["forecast"][0]: the text is     *)
(* kept as the list of its <forecast> blocks, so the lookup fails when the *)
(* list is empty and yields the first block otherwise.                     *)
HasForecastBlock(content) == Len(content) > 0

FirstForecastBlock(content) == content[1]

(* forecast values taken in the order of the text's lines *)
ParseChoiceTextInTextOrder(content, targets) ==
    IF ~HasForecastBlock(content)
    THEN [ok |-> FALSE, forecast |-> <<>>]
    ELSE LET lines == FirstForecastBlock(content)
         IN  IF \E i \in DOMAIN lines : ~LineOk(lines[i])
             THEN [ok |-> FALSE, forecast |-> <<>>]
             ELSE LET d == ForecastDict(lines)
                  IN  IF \E i \in DOMAIN targets : targets[i] \notin DOMAIN d
                      THEN [ok |-> FALSE, forecast |-> <<>>]
                      ELSE [ok |-> TRUE,
                            forecast |-> [i \in DOMAIN targets |->
                                             FloatTable[lines[i][2]]]]

(* missing target timestamps are left out instead of failing *)
ParseChoiceTextSkipsMissing(content, targets) ==
    IF ~HasForecastBlock(content)
    THEN [ok |-> FALSE, forecast |-> <<>>]
    ELSE LET lines == FirstForecastBlock(content)
         IN  IF \E i \in DOMAIN lines : ~LineOk(lines[i])
             THEN [ok |-> FALSE, forecast |-> <<>>]
             ELSE LET d == ForecastDict(lines)
                      present == SelectSeq(targets, LAMBDA t : t \in DOMAIN d)
                  IN  [ok |-> TRUE,
                       forecast |-> [i \in DOMAIN present |-> d[present[i]]]]

ParseChoiceText(content, targets) ==
    IF ~HasForecastBlock(content)
    THEN [ok |-> FALSE, forecast |-> <<>>]
    ELSE LET lines == FirstForecastBlock(content)
         IN  IF \E i \in DOMAIN lines : ~LineOk(lines[i])
             THEN [ok |-> FALSE, forecast |-> <<>>]
             ELSE LET d == ForecastDict(lines)
                  IN  IF \E i \in DOMAIN targets : targets[i] \notin DOMAIN d
                      THEN [ok |-> FALSE, forecast |-> <<>>]
                      ELSE [ok |-> TRUE,
                            forecast |-> [i \in DOMAIN targets |-> d[targets[i]]]]

TextA == << << <<"t1", "1">>, <<"t2", "2">> >> >>
TextMissing == << << <<"t1", "1">> >> >>
TextB == << << <<"t2", "1">>, <<"t1", "2">> >> >>

Texts == {TextA, TextMissing}

Usages == {[prompt_tokens |-> 1, completion_tokens |-> 0],
           [prompt_tokens |-> 2, completion_tokens |-> 3]}

SeqsUpTo(S, n) == UNION {[1..k -> S] : k \in 0..n}

(* ------------------------------- state --------------------------------- *)
VARIABLES
    self,               \* the engine's configuration (self.* of __init__)
    n_samples,          \* argument of __call__
    task_instance,      \* argument of __call__
    pc,                 \* position of the call
    default_batch_size, batch_size, n_retries, max_batch_size,
    valid_forecasts, total_tokens,
    chat_completion,    \* the response being parsed
    choice_idx,         \* position of the for loop over its choices
    outcome,            \* how the call ended
    n_requests,         \* number of client invocations so far
    request,            \* the last request issued
    reported,           \* usage reported by the backend over the call
    requested_total,    \* sum of n over the requests issued
    round_before,       \* len(valid_forecasts) when the last response arrived
    backend_raised      \* the client raised during the call

callVars == <<self, n_samples, task_instance, pc, default_batch_size, batch_size,
              n_retries, max_batch_size, valid_forecasts, total_tokens,
              chat_completion, choice_idx, outcome, n_requests, request, reported,
              requested_total, round_before, backend_raised>>

(* The engine object across calls, and what a call writes but never reads. *)
VARIABLES
    token_cost,         \* self.token_cost: NoneVal or the prices per 1000 tokens
    total_cost,         \* self.total_cost, in cents
    llm_outputs,        \* raw texts appended at line 366
    emitted,            \* every text the backend returned during the call
    accepted_log,       \* every forecast accepted during the call, in order
    reported_cost,      \* sum of the total_token_cost of the calls that returned
    calls_made          \* number of calls started on the engine

engineVars == <<token_cost, total_cost, llm_outputs, emitted, accepted_log,
                reported_cost, calls_made>>

(* One candidate text handed to the parsing of lines 367-390. *)
VARIABLES
    parse_input,        \* choice.message.content
    parse_result        \* what the try block made of it

parseVars == <<parse_input, parse_result>>

(* Calls that run at the same time on one engine, each seen from the end   *)
(* of its loop (line 423) on.                                              *)
VARIABLES
    thread_pc,          \* where each call is: "loop", "load", "store", "done"
    thread_tokens,      \* total_tokens of each call, a local of that call
    thread_read         \* the value of self.total_cost each call has read

threadVars == <<thread_pc, thread_tokens, thread_read>>

(* Two engine objects and the cache names read from them. *)
VARIABLES
    engines,            \* the attributes set by __init__, per engine
    engine_calls,       \* number of calls made on each engine
    key_first,          \* cache_name read right after construction
    key_now             \* cache_name read after the latest call

cacheVars == <<engines, engine_calls, key_first, key_now>>

(* One history value handed to the formatting of make_prompt (line 246). *)
VARIABLES
    format_input,       \* the value y and the max_digits argument
    format_result       \* the text written for it

formatVars == <<format_input, format_result>>

(* what the steps of one engine's sequential calls leave alone *)
outsideEngine == <<parseVars, threadVars, cacheVars, formatVars>>

(* everything a single call seen through callVars leaves alone *)
outsideCall == <<engineVars, outsideEngine>>

vars == <<callVars, engineVars, parseVars, threadVars, cacheVars, formatVars>>

OptSizes == {NoneVal} \cup (0..MaxBatch)

NoCompletion == [choices |-> <<>>, usage |-> [prompt_tokens |-> 0, completion_tokens |-> 0]]

InitCall ==
    /\ self \in [fail_on_invalid : BOOLEAN,
                 n_retries : 0..MaxRetries,
                 batch_size : OptSizes,
                 batch_size_on_retry : 0..MaxBatch]
    /\ n_samples \in 0..MaxSamples
    /\ task_instance \in [max_crazycast_batch_size : OptSizes]
    /\ pc = "call"
    /\ default_batch_size = 0
    /\ batch_size = 0
    /\ n_retries = 0
    /\ max_batch_size = NoneVal
    /\ valid_forecasts = <<>>
    /\ total_tokens = [input |-> 0, output |-> 0]
    /\ chat_completion = NoCompletion
    /\ choice_idx = 0
    /\ outcome = [kind |-> "running"]
    /\ n_requests = 0
    /\ request = [n |-> 0]
    /\ reported = [input |-> 0, output |-> 0]
    /\ requested_total = 0
    /\ round_before = 0
    /\ backend_raised = FALSE

(* A single call looked at through the variables the loop reads: the       *)
(* engine's cost accounting is off and the write-only records stay empty.  *)
(* token_cost = None (line 168), as a record so that it compares with a dict *)
NoTokenCost == [input |-> NoneVal, output |-> NoneVal]

EngineIdle ==
    /\ token_cost = NoTokenCost
    /\ total_cost = 0
    /\ llm_outputs = <<>>
    /\ emitted = <<>>
    /\ accepted_log = <<>>
    /\ reported_cost = 0
    /\ calls_made = 0

ParseIdle ==
    /\ parse_input = <<>>
    /\ parse_result = [state |-> "idle"]

(* no call in progress: an engine built with the defaults of __init__ *)
CallIdle ==
    /\ self = [fail_on_invalid |-> TRUE, n_retries |-> 3, batch_size |-> NoneVal,
               batch_size_on_retry |-> 5]
    /\ n_samples = 0
    /\ task_instance = [max_crazycast_batch_size |-> NoneVal]
    /\ pc = "idle"
    /\ default_batch_size = 0
    /\ batch_size = 0
    /\ n_retries = 0
    /\ max_batch_size = NoneVal
    /\ valid_forecasts = <<>>
    /\ total_tokens = [input |-> 0, output |-> 0]
    /\ chat_completion = NoCompletion
    /\ choice_idx = 0
    /\ outcome = [kind |-> "running"]
    /\ n_requests = 0
    /\ request = [n |-> 0]
    /\ reported = [input |-> 0, output |-> 0]
    /\ requested_total = 0
    /\ round_before = 0
    /\ backend_raised = FALSE

ThreadIdle ==
    /\ thread_pc = <<>>
    /\ thread_tokens = <<>>
    /\ thread_read = <<>>

CacheIdle ==
    /\ engines = <<>>
    /\ engine_calls = <<>>
    /\ key_first = <<>>
    /\ key_now = <<>>

FormatIdle ==
    /\ format_input = [y |-> 0, max_digits |-> 6]
    /\ format_result = [state |-> "idle"]

Init == InitCall /\ EngineIdle /\ ParseIdle /\ ThreadIdle /\ CacheIdle /\ FormatIdle

(* ------------------------ lines 317-352: entry ------------------------- *)
DefaultBatchSizeIgnoresSetting(s, n) == n

DefaultBatchSize(s, n) == IF ~Truthy(s.batch_size) THEN n ELSE s.batch_size

CoverageAssertStrict(s, n) ==
    Truthy(s.batch_size) => s.batch_size * s.n_retries > n

CoverageAssert(s, n) == Truthy(s.batch_size) => s.batch_size * s.n_retries >= n

RetryAssertAgainstSamples(s, n) == s.batch_size_on_retry <= n

RetryAssert(s, n) == s.batch_size_on_retry <= DefaultBatchSize(s, n)

FirstBatchSize(dbs, cap) == IF cap # NoneVal THEN Min(dbs, cap) ELSE dbs

RetryBudgetSplitOnly(nr, dbs, cap) ==
    IF cap # NoneVal
    THEN nr + (dbs + Min(dbs, cap) - 1) \div Min(dbs, cap) - 1
    ELSE nr

RetryBudgetNoExtra(nr, dbs, cap) == nr

RetryBudget(nr, dbs, cap) ==
    IF cap # NoneVal THEN nr + dbs \div Min(dbs, cap) ELSE nr

Enter ==
    /\ pc = "call"
    /\ default_batch_size' = DefaultBatchSize(self, n_samples)
    /\ IF ~CoverageAssert(self, n_samples) \/ ~RetryAssert(self, n_samples)
       THEN /\ outcome' = [kind |-> "AssertionError"]
            /\ pc' = "done"
            /\ UNCHANGED <<batch_size, n_retries, max_batch_size>>
       ELSE /\ max_batch_size' = task_instance.max_crazycast_batch_size
            /\ IF /\ task_instance.max_crazycast_batch_size # NoneVal
                  /\ Min(default_batch_size', task_instance.max_crazycast_batch_size) = 0
               THEN /\ outcome' = [kind |-> "ZeroDivisionError"]
                    /\ pc' = "done"
                    /\ batch_size' = 0
                    /\ UNCHANGED n_retries
               ELSE /\ batch_size' = FirstBatchSize(default_batch_size',
                                         task_instance.max_crazycast_batch_size)
                    /\ n_retries' = RetryBudget(self.n_retries, default_batch_size',
                                         task_instance.max_crazycast_batch_size)
                    /\ pc' = "while"
                    /\ UNCHANGED outcome
    /\ UNCHANGED <<self, n_samples, task_instance, valid_forecasts, total_tokens,
                   chat_completion, choice_idx, n_requests, request, reported,
                   round_before, requested_total, backend_raised>>

(* ---------------------- line 354: the while test ----------------------- *)
LoopConditionBudgetOnly(nvalid, n, nr) == nr > 0

LoopCondition(nvalid, n, nr) == nvalid < n /\ nr > 0

(* a request that is silently sent a second time *)
IssueRequestWithHiddenRetry ==
    /\ pc = "while"
    /\ LoopCondition(Len(valid_forecasts), n_samples, n_retries)
    /\ request' = [n |-> batch_size]
    /\ n_requests' = n_requests + 2
    /\ requested_total' = requested_total + 2 * batch_size
    /\ pc' = "client"
    /\ UNCHANGED <<self, n_samples, task_instance, default_batch_size, batch_size,
                   n_retries, max_batch_size, valid_forecasts, total_tokens,
                   chat_completion, choice_idx, outcome, reported, round_before, backend_raised>>

(* lines 355-359: one generation request for batch_size candidates *)
IssueRequest ==
    /\ pc = "while"
    /\ LoopCondition(Len(valid_forecasts), n_samples, n_retries)
    /\ request' = [n |-> batch_size]
    /\ n_requests' = n_requests + 1
    /\ requested_total' = requested_total + batch_size
    /\ pc' = "client"
    /\ UNCHANGED <<self, n_samples, task_instance, default_batch_size, batch_size,
                   n_retries, max_batch_size, valid_forecasts, total_tokens,
                   chat_completion, choice_idx, outcome, reported, round_before, backend_raised>>

LoopExit ==
    /\ pc = "while"
    /\ ~LoopCondition(Len(valid_forecasts), n_samples, n_retries)
    /\ pc' = "finish"
    /\ UNCHANGED <<self, n_samples, task_instance, default_batch_size, batch_size,
                   n_retries, max_batch_size, valid_forecasts, total_tokens,
                   chat_completion, choice_idx, outcome, n_requests, request,
                   reported, round_before, requested_total, backend_raised>>

(* lines 357-362: the client returns; usage is accumulated *)
AddUsageLastOnly(tt, usage) ==
    [input |-> usage.prompt_tokens, output |-> usage.completion_tokens]

AddUsage(tt, usage) ==
    [input |-> tt.input + usage.prompt_tokens,
     output |-> tt.output + usage.completion_tokens]

ClientReturnsFrom(texts, maxc) ==
    /\ pc = "client"
    /\ \E choices \in SeqsUpTo(texts, maxc), usage \in Usages :
          /\ chat_completion' = [choices |-> choices, usage |-> usage]
          /\ total_tokens' = AddUsage(total_tokens, usage)
          /\ reported' = [input |-> reported.input + usage.prompt_tokens,
                          output |-> reported.output + usage.completion_tokens]
    /\ round_before' = Len(valid_forecasts)
    /\ choice_idx' = 1
    /\ pc' = "choice"
    /\ UNCHANGED <<self, n_samples, task_instance, default_batch_size, batch_size,
                   n_retries, max_batch_size, valid_forecasts, outcome, n_requests,
                   request, requested_total, backend_raised>>

ClientReturns == ClientReturnsFrom(Texts, MaxChoices)

(* lines 357-359: the client raises; the exception leaves __call__ *)
ClientRaisesSwallowed ==
    /\ pc = "client"
    /\ backend_raised' = TRUE
    /\ chat_completion' = NoCompletion
    /\ round_before' = Len(valid_forecasts)
    /\ choice_idx' = 1
    /\ pc' = "choice"
    /\ UNCHANGED <<self, n_samples, task_instance, default_batch_size, batch_size,
                   n_retries, max_batch_size, valid_forecasts, total_tokens,
                   outcome, n_requests, request, reported, requested_total>>

ClientRaises ==
    /\ pc = "client"
    /\ outcome' = [kind |-> "BackendError"]
    /\ backend_raised' = TRUE
    /\ pc' = "done"
    /\ UNCHANGED <<self, n_samples, task_instance, default_batch_size, batch_size,
                   n_retries, max_batch_size, valid_forecasts, total_tokens,
                   chat_completion, choice_idx, n_requests, request, reported,
                   round_before, requested_total>>

(* lines 365-395: one iteration of the for loop over the choices *)
AcceptChoice(vf, content) ==
    LET p == ParseChoiceText(content, future_time)
    IN  IF p.ok THEN Append(vf, p.forecast) ELSE vf

ParseChoiceAbortsBatch ==
    /\ pc = "choice"
    /\ choice_idx <= Len(chat_completion.choices)
    /\ valid_forecasts' = AcceptChoice(valid_forecasts,
                                       chat_completion.choices[choice_idx])
    /\ choice_idx' =
          IF ParseChoiceText(chat_completion.choices[choice_idx], future_time).ok
          THEN choice_idx + 1
          ELSE Len(chat_completion.choices) + 1
    /\ UNCHANGED <<self, n_samples, task_instance, pc, default_batch_size,
                   batch_size, n_retries, max_batch_size, total_tokens,
                   chat_completion, outcome, n_requests, request, reported,
                   round_before, requested_total, backend_raised>>

ParseChoice ==
    /\ pc = "choice"
    /\ choice_idx <= Len(chat_completion.choices)
    /\ valid_forecasts' = AcceptChoice(valid_forecasts,
                                       chat_completion.choices[choice_idx])
    /\ choice_idx' = choice_idx + 1
    /\ UNCHANGED <<self, n_samples, task_instance, pc, default_batch_size,
                   batch_size, n_retries, max_batch_size, total_tokens,
                   chat_completion, outcome, n_requests, request, reported,
                   round_before, requested_total, backend_raised>>

(* lines 397-409: end of the round *)
NextBatchSizeUnclamped(s, n, nvalid, cap) ==
    IF cap # NoneVal
    THEN Max(n - nvalid, s.batch_size_on_retry)
    ELSE s.batch_size_on_retry

NextBatchSizeFullTarget(s, n, nvalid, cap) ==
    IF cap # NoneVal
    THEN Min(Max(n, s.batch_size_on_retry), cap)
    ELSE s.batch_size_on_retry

NextBatchSizeRemaining(s, n, nvalid, cap) ==
    IF cap # NoneVal
    THEN Min(Max(n - nvalid, s.batch_size_on_retry), cap)
    ELSE Max(n - nvalid, s.batch_size_on_retry)

NextBatchSize(s, n, nvalid, cap) ==
    IF cap # NoneVal
    THEN Min(Max(n - nvalid, s.batch_size_on_retry), cap)
    ELSE s.batch_size_on_retry

TruncateKeepLast(vf, n) ==
    IF Len(vf) > n THEN SubSeq(vf, Len(vf) - n + 1, Len(vf)) ELSE vf

TruncateOneTooMany(vf, n) == SubSeq(vf, 1, Min(Len(vf), n + 1))

TruncateNothing(vf, n) == vf

Truncate(vf, n) == SubSeq(vf, 1, Min(Len(vf), n))

EndRound ==
    /\ pc = "choice"
    /\ choice_idx > Len(chat_completion.choices)
    /\ n_retries' = n_retries - 1
    /\ batch_size' = NextBatchSize(self, n_samples, Len(valid_forecasts),
                                   max_batch_size)
    /\ valid_forecasts' = Truncate(valid_forecasts, n_samples)
    /\ pc' = "while"
    /\ UNCHANGED <<self, n_samples, task_instance, default_batch_size,
                   max_batch_size, total_tokens, chat_completion, choice_idx,
                   outcome, n_requests, request, reported, round_before, requested_total, backend_raised>>

(* lines 411-442: raise, or assemble the result *)
MustRaiseAlways(s, nvalid, n) == nvalid < n

MustRaise(s, nvalid, n) == s.fail_on_invalid /\ nvalid < n

FinishOutcome(s, vf, n, tt) ==
    IF MustRaise(s, Len(vf), n)
    THEN [kind |-> "RuntimeError", requested |-> n, got |-> Len(vf)]
    ELSE IF Len(vf) = 0
         THEN [kind |-> "IndexError"]
         ELSE [kind |-> "returned",
               samples |-> vf,
               extra_info |-> [total_input_tokens |-> tt.input,
                               total_output_tokens |-> tt.output]]

Finish ==
    /\ pc = "finish"
    /\ outcome' = FinishOutcome(self, valid_forecasts, n_samples, total_tokens)
    /\ pc' = "done"
    /\ UNCHANGED <<self, n_samples, task_instance, default_batch_size, batch_size,
                   n_retries, max_batch_size, valid_forecasts, total_tokens,
                   chat_completion, choice_idx, n_requests, request, reported,
                   round_before, requested_total, backend_raised>>

Next ==
    \/ Enter /\ UNCHANGED outsideCall
    \/ IssueRequest /\ UNCHANGED outsideCall
    \/ LoopExit /\ UNCHANGED outsideCall
    \/ ClientReturns /\ UNCHANGED outsideCall
    \/ ClientRaises /\ UNCHANGED outsideCall
    \/ ParseChoice /\ UNCHANGED outsideCall
    \/ EndRound /\ UNCHANGED outsideCall
    \/ Finish /\ UNCHANGED outsideCall

(* ------------- the engine object over several calls -------------------- *)
(* Costs are kept in cents; the prices of token_cost are dollars per 1000  *)
(* tokens, so a call costs (input * price_in + output * price_out) / 10    *)
(* cents before rounding.                                                  *)
MaxCalls == 2

EngineTexts == {TextA, TextB, TextMissing}

EngineSelves ==
    [fail_on_invalid : BOOLEAN, n_retries : {1, 2}, batch_size : {NoneVal},
     batch_size_on_retry : {1}]

TokenCosts == {NoTokenCost, [input |-> 4, output |-> 2]}

(* locals of a fresh call, lines 326-352 not yet run *)
FreshCall ==
    /\ pc = "call"
    /\ default_batch_size = 0
    /\ batch_size = 0
    /\ n_retries = 0
    /\ max_batch_size = NoneVal
    /\ valid_forecasts = <<>>
    /\ total_tokens = [input |-> 0, output |-> 0]
    /\ chat_completion = NoCompletion
    /\ choice_idx = 0
    /\ outcome = [kind |-> "running"]
    /\ n_requests = 0
    /\ request = [n |-> 0]
    /\ reported = [input |-> 0, output |-> 0]
    /\ requested_total = 0
    /\ round_before = 0
    /\ backend_raised = FALSE
    /\ llm_outputs = <<>>
    /\ emitted = <<>>
    /\ accepted_log = <<>>

InitEngine ==
    /\ self \in EngineSelves
    /\ n_samples \in {1, 2}
    /\ task_instance \in [max_crazycast_batch_size : {NoneVal, 1}]
    /\ task_instance.max_crazycast_batch_size # NoneVal =>
          self.n_retries = 1 /\ n_samples = 1
    /\ token_cost \in TokenCosts
    /\ total_cost = 0
    /\ reported_cost = 0
    /\ calls_made = 1
    /\ FreshCall
    /\ ParseIdle
    /\ ThreadIdle
    /\ CacheIdle
    /\ FormatIdle

(* round(x, 2) of line 428 on a cost of num / den cents: the nearest cent. *)
(* On an exact tie the float that Python rounds lies just above or just    *)
(* below the tie, so the result there depends on its binary form; the tie  *)
(* goes to the even cent here, and the prices of TokenCosts are even, so   *)
(* that no call of the model costs an exact half cent.                     *)
RoundHalfEven(num, den) ==
    LET q == num \div den
        r == num % den
    IN  IF 2 * r < den THEN q
        ELSE IF 2 * r > den THEN q + 1
        ELSE IF q % 2 = 0 THEN q ELSE q + 1

CurrentCostRoundedParts(tt, prices) ==
    RoundHalfEven(tt.input * prices.input, 10)
        + RoundHalfEven(tt.output * prices.output, 10)

(* lines 426-428 *)
CurrentCost(tt, prices) ==
    RoundHalfEven(tt.input * prices.input + tt.output * prices.output, 10)

RecordOutputIfValid(outs, content) ==
    IF ParseChoiceText(content, future_time).ok THEN Append(outs, content) ELSE outs

(* line 366 *)
RecordOutput(outs, content) == Append(outs, content)

(* the forecasts of a batch that parse validly, in the order of the batch *)
ValidForecastsOf(choices) ==
    LET good == SelectSeq(choices, LAMBDA c : ParseChoiceText(c, future_time).ok)
    IN  [i \in DOMAIN good |-> ParseChoiceText(good[i], future_time).forecast]

(* lines 417-434: the usage report *)
ExtraInfo(tt, outs, prices) ==
    LET base == [total_input_tokens |-> tt.input,
                 total_output_tokens |-> tt.output,
                 llm_outputs |-> outs]
    IN  IF prices # NoTokenCost
        THEN [total_input_tokens |-> tt.input,
              total_output_tokens |-> tt.output,
              llm_outputs |-> outs,
              input_token_cost |-> prices.input,
              output_token_cost |-> prices.output,
              total_token_cost |-> CurrentCost(tt, prices)]
        ELSE base

EngineClientReturns ==
    /\ ClientReturnsFrom(EngineTexts, MaxChoices)
    /\ emitted' = emitted \o chat_completion'.choices
    /\ accepted_log' = accepted_log \o ValidForecastsOf(chat_completion'.choices)
    /\ UNCHANGED <<token_cost, total_cost, llm_outputs, reported_cost, calls_made>>

EngineParseChoice ==
    /\ ParseChoice
    /\ llm_outputs' = RecordOutput(llm_outputs, chat_completion.choices[choice_idx])
    /\ UNCHANGED <<token_cost, total_cost, emitted, accepted_log, reported_cost,
                   calls_made>>

(* lines 411-442 with the cost accounting: the RuntimeError of line 413     *)
(* comes before the update of self.total_cost (line 430), the IndexError   *)
(* of line 437 after it                                                    *)
EngineFinish ==
    /\ pc = "finish"
    /\ pc' = "done"
    /\ IF MustRaise(self, Len(valid_forecasts), n_samples)
       THEN /\ outcome' = FinishOutcome(self, valid_forecasts, n_samples, total_tokens)
            /\ UNCHANGED <<total_cost, reported_cost>>
       ELSE /\ total_cost' = IF token_cost # NoTokenCost
                             THEN total_cost + CurrentCost(total_tokens, token_cost)
                             ELSE total_cost
            /\ IF Len(valid_forecasts) = 0
               THEN /\ outcome' = [kind |-> "IndexError"]
                    /\ UNCHANGED reported_cost
               ELSE /\ outcome' = [kind |-> "returned",
                                   samples |-> valid_forecasts,
                                   extra_info |-> ExtraInfo(total_tokens, llm_outputs,
                                                            token_cost)]
                    /\ reported_cost' = IF token_cost # NoTokenCost
                                        THEN reported_cost
                                               + outcome'.extra_info.total_token_cost
                                        ELSE reported_cost
    /\ UNCHANGED <<self, n_samples, task_instance, default_batch_size, batch_size,
                   n_retries, max_batch_size, valid_forecasts, total_tokens,
                   chat_completion, choice_idx, n_requests, request, reported,
                   requested_total, round_before, backend_raised>>
    /\ UNCHANGED <<token_cost, llm_outputs, emitted, accepted_log, calls_made>>

(* a second call that goes on from the counters and forecasts of the first *)
NextCallKeepsUsage ==
    /\ pc = "done"
    /\ calls_made < MaxCalls
    /\ calls_made' = calls_made + 1
    /\ pc' = "call"
    /\ default_batch_size' = 0
    /\ batch_size' = 0
    /\ n_retries' = 0
    /\ max_batch_size' = NoneVal
    /\ UNCHANGED <<valid_forecasts, total_tokens>>
    /\ chat_completion' = NoCompletion
    /\ choice_idx' = 0
    /\ outcome' = [kind |-> "running"]
    /\ n_requests' = 0
    /\ request' = [n |-> 0]
    /\ reported' = [input |-> 0, output |-> 0]
    /\ requested_total' = 0
    /\ round_before' = 0
    /\ backend_raised' = FALSE
    /\ llm_outputs' = <<>>
    /\ emitted' = <<>>
    /\ accepted_log' = <<>>
    /\ UNCHANGED <<self, n_samples, task_instance, token_cost, total_cost,
                   reported_cost>>

(* the caller invokes __call__ again on the same engine *)
NextCall ==
    /\ pc = "done"
    /\ calls_made < MaxCalls
    /\ calls_made' = calls_made + 1
    /\ pc' = "call"
    /\ default_batch_size' = 0
    /\ batch_size' = 0
    /\ n_retries' = 0
    /\ max_batch_size' = NoneVal
    /\ valid_forecasts' = <<>>
    /\ total_tokens' = [input |-> 0, output |-> 0]
    /\ chat_completion' = NoCompletion
    /\ choice_idx' = 0
    /\ outcome' = [kind |-> "running"]
    /\ n_requests' = 0
    /\ request' = [n |-> 0]
    /\ reported' = [input |-> 0, output |-> 0]
    /\ requested_total' = 0
    /\ round_before' = 0
    /\ backend_raised' = FALSE
    /\ llm_outputs' = <<>>
    /\ emitted' = <<>>
    /\ accepted_log' = <<>>
    /\ UNCHANGED <<self, n_samples, task_instance, token_cost, total_cost,
                   reported_cost>>

NextEngine ==
    \/ Enter /\ UNCHANGED outsideCall
    \/ IssueRequest /\ UNCHANGED outsideCall
    \/ LoopExit /\ UNCHANGED outsideCall
    \/ EngineClientReturns /\ UNCHANGED outsideEngine
    \/ ClientRaises /\ UNCHANGED outsideCall
    \/ EngineParseChoice /\ UNCHANGED outsideEngine
    \/ EndRound /\ UNCHANGED outsideCall
    \/ EngineFinish /\ UNCHANGED outsideEngine
    \/ NextCall /\ UNCHANGED outsideEngine

SpecEngine == InitEngine /\ [][NextEngine]_vars

(* ------------- calls running at the same time on one engine ------------ *)
(* self.total_cost += current_cost (line 430) reads the attribute, adds,   *)
(* and writes the attribute back; nothing in the class holds a lock, so    *)
(* another call's step may fall between the read and the write.            *)
MaxThreads == 2

Threads == 1..MaxThreads

ThreadTokenTotals == [input : {1, 2}, output : {0, 3}]

InitThreads ==
    /\ thread_pc = [t \in Threads |-> "loop"]
    /\ thread_tokens = [t \in Threads |-> [input |-> 0, output |-> 0]]
    /\ thread_read = [t \in Threads |-> 0]
    /\ token_cost \in TokenCosts \ {NoTokenCost}
    /\ total_cost = 0
    /\ llm_outputs = <<>>
    /\ emitted = <<>>
    /\ accepted_log = <<>>
    /\ reported_cost = 0
    /\ calls_made = MaxThreads
    /\ CallIdle
    /\ ParseIdle
    /\ CacheIdle
    /\ FormatIdle

(* lines 354-423 of call t: its loop ends with some total_tokens *)
ThreadLoopEnds(t) ==
    /\ thread_pc[t] = "loop"
    /\ \E tt \in ThreadTokenTotals :
          thread_tokens' = [thread_tokens EXCEPT ![t] = tt]
    /\ thread_pc' = [thread_pc EXCEPT ![t] = "load"]
    /\ UNCHANGED <<thread_read, callVars, engineVars, parseVars, cacheVars,
                   formatVars>>

(* line 430, first half: read self.total_cost *)
ThreadLoad(t) ==
    /\ thread_pc[t] = "load"
    /\ thread_read' = [thread_read EXCEPT ![t] = total_cost]
    /\ thread_pc' = [thread_pc EXCEPT ![t] = "store"]
    /\ UNCHANGED <<thread_tokens, callVars, engineVars, parseVars, cacheVars,
                   formatVars>>

(* line 430, second half: write the sum back; lines 432-442 return *)
ThreadStore(t) ==
    /\ thread_pc[t] = "store"
    /\ total_cost' = thread_read[t] + CurrentCost(thread_tokens[t], token_cost)
    /\ reported_cost' = reported_cost + CurrentCost(thread_tokens[t], token_cost)
    /\ thread_pc' = [thread_pc EXCEPT ![t] = "done"]
    /\ UNCHANGED <<thread_tokens, thread_read, callVars, token_cost, llm_outputs,
                   emitted, accepted_log, calls_made, parseVars, cacheVars,
                   formatVars>>

NextThreads ==
    \/ \E t \in Threads : ThreadLoopEnds(t)
    \/ \E t \in Threads : ThreadLoad(t)
    \/ \E t \in Threads : ThreadStore(t)

SpecThreads == InitThreads /\ [][NextThreads]_vars

(* ------------- the cache name of an engine ----------------------------- *)
(* Strings are strings; a temperature is kept in tenths (10 is 1.0).       *)
StartsWith(s, prefix) ==
    Len(s) >= Len(prefix) /\ SubSeq(s, 1, Len(prefix)) = prefix

(* str() of a bool, of a non-negative int, and of a float with one decimal *)
PyBool(b) == IF b THEN "True" ELSE "False"
PyInt(n) == ToString(n)
PyFloat(tenths) == ToString(tenths \div 10) \o "." \o ToString(tenths % 10)

(* f"{getattr(self, k)}" of line 455 *)
FormatAttr(e, k) ==
    CASE k = "model" -> e.model
      [] k = "use_context" -> PyBool(e.use_context)
      [] k = "fail_on_invalid" -> PyBool(e.fail_on_invalid)
      [] k = "n_retries" -> PyInt(e.n_retries)
      [] k = "temperature" -> PyFloat(e.temperature)

ArgsToIncludeTemperatureAlways(e) ==
    <<"model", "use_context", "fail_on_invalid", "n_retries", "temperature">>

(* lines 446-453 *)
ArgsToInclude(e) ==
    IF ~StartsWith(e.model, "gpt")
    THEN <<"model", "use_context", "fail_on_invalid", "n_retries", "temperature">>
    ELSE <<"model", "use_context", "fail_on_invalid", "n_retries">>

RECURSIVE Join(_, _)
Join(sep, parts) ==
    IF Len(parts) = 0 THEN ""
    ELSE IF Len(parts) = 1 THEN parts[1]
    ELSE parts[1] \o sep \o Join(sep, Tail(parts))

(* lines 444-456 *)
cache_name(e) ==
    LET args == ArgsToInclude(e)
    IN  "CrazyCast_" \o Join("_", [i \in DOMAIN args |->
                                      args[i] \o "=" \o FormatAttr(e, args[i])])

(* get_client (lines 197-225) accepts any name that starts with "gpt" *)
CacheModels == {"gpt-4o", "gpt-4o_use_context=False", "llama-3.1-405b-instruct"}

KeyedAttrs ==
    [model : CacheModels, use_context : BOOLEAN, fail_on_invalid : BOOLEAN,
     n_retries : {1, 3}, temperature : {5, 10}]

OtherAttrs ==
    {[batch_size |-> NoneVal, batch_size_on_retry |-> 5, token_cost |-> NoTokenCost,
      dry_run |-> FALSE, total_cost |-> 0],
     [batch_size |-> 2, batch_size_on_retry |-> 5, token_cost |-> NoTokenCost,
      dry_run |-> FALSE, total_cost |-> 0],
     [batch_size |-> 2, batch_size_on_retry |-> 1,
      token_cost |-> [input |-> 4, output |-> 2],
      dry_run |-> TRUE, total_cost |-> 0]}

(* the attributes of an engine after __init__ (lines 173-182) *)
CacheEngines == {k @@ o : k \in KeyedAttrs, o \in OtherAttrs}

InitCache ==
    /\ engines \in [1..2 -> CacheEngines]
    /\ engine_calls = [i \in 1..2 |-> 0]
    /\ key_first = [i \in 1..2 |-> cache_name(engines[i])]
    /\ key_now = key_first
    /\ CallIdle
    /\ EngineIdle
    /\ ParseIdle
    /\ ThreadIdle
    /\ FormatIdle

(* what a returning call leaves on the engine: line 430 adds its cost to   *)
(* total_cost when token_cost is set; no other attribute is assigned in    *)
(* __call__.  The call used 2 input and 3 output tokens.                   *)
AfterCall(e) ==
    IF e.token_cost # NoTokenCost
    THEN [e EXCEPT !.total_cost =
              @ + CurrentCost([input |-> 2, output |-> 3], e.token_cost)]
    ELSE e

(* a call on engine i, then cache_name read again *)
CacheCall(i) ==
    /\ engine_calls[i] < MaxCalls
    /\ engine_calls' = [engine_calls EXCEPT ![i] = @ + 1]
    /\ engines' = [engines EXCEPT ![i] = AfterCall(@)]
    /\ key_now' = [key_now EXCEPT ![i] = cache_name(engines'[i])]
    /\ UNCHANGED <<key_first, callVars, engineVars, parseVars, threadVars,
                   formatVars>>

NextCache == \E i \in 1..2 : CacheCall(i)

SpecCache == InitCache /\ [][NextCache]_vars

(* ------------- the text of one history value in the prompt ------------- *)
(* A history value is a float with an integral value, kept as an integer;  *)
(* max_digits is the argument of make_prompt (6 unless the caller says).   *)
MaxValue == 120

RECURSIVE Pow10(_)
Pow10(k) == IF k = 0 THEN 1 ELSE 10 * Pow10(k - 1)

Abs(y) == IF y < 0 THEN -y ELSE y

(* the decimal exponent of a positive integer: its number of digits less 1 *)
RECURSIVE Exponent(_)
Exponent(n) == IF n < 10 THEN 0 ELSE 1 + Exponent(n \div 10)

RECURSIVE StripZeros(_)
StripZeros(n) == IF n >= 10 /\ n % 10 = 0 THEN StripZeros(n \div 10) ELSE n

SignText(y) == IF y < 0 THEN "-" ELSE ""

(* f"{y:.0f}" *)
FormatF0(y) == SignText(y) \o ToString(Abs(y))

(* f"{y:.{d}g}": d significant digits, trailing zeros removed, scientific  *)
(* notation once the exponent of the rounded value reaches d               *)
FormatG(y, d) ==
    IF Abs(y) < Pow10(d)
    THEN SignText(y) \o ToString(Abs(y))
    ELSE LET e0 == Exponent(Abs(y))
             m0 == RoundHalfEven(Abs(y), Pow10(e0 - d + 1))
             e == IF m0 = Pow10(d) THEN e0 + 1 ELSE e0
             m == IF m0 = Pow10(d) THEN Pow10(d - 1) ELSE m0
             digits == ToString(StripZeros(m))
             mantissa == IF Len(digits) > 1
                         THEN SubSeq(digits, 1, 1) \o "." \o
                              SubSeq(digits, 2, Len(digits))
                         ELSE digits
         IN  SignText(y) \o mantissa \o "e+" \o
             (IF e < 10 THEN "0" ELSE "") \o ToString(e)

(* the test of line 246: general format when y < 10**max_digits *)
UsesFixed(y, d) == ~(y < Pow10(d))

(* line 246, the value part of one history line *)
FormatValue(y, d) == IF UsesFixed(y, d) THEN FormatF0(y) ELSE FormatG(y, d)

InitFormat ==
    /\ format_input \in [y : -MaxValue..MaxValue, max_digits : {1, 2}]
    /\ format_result = [state |-> "pending"]
    /\ CallIdle
    /\ EngineIdle
    /\ ParseIdle
    /\ ThreadIdle
    /\ CacheIdle

FormatHistoryValue ==
    /\ format_result.state = "pending"
    /\ format_result' =
          [state |-> "written",
           fixed |-> UsesFixed(format_input.y, format_input.max_digits),
           text |-> FormatValue(format_input.y, format_input.max_digits)]
    /\ UNCHANGED <<format_input, callVars, engineVars, parseVars, threadVars,
                   cacheVars>>

NextFormat == FormatHistoryValue

SpecFormat == InitFormat /\ [][NextFormat]_vars

(* ------------- one call against a backend that never disappoints ------- *)
(* The backend returns exactly the requested number of candidates on       *)
(* every request and every candidate parses validly.                       *)
IdealMax == 4

IdealSizes == {NoneVal} \cup (0..IdealMax)

InitIdeal ==
    /\ self \in [fail_on_invalid : BOOLEAN,
                 n_retries : 0..MaxRetries,
                 batch_size : IdealSizes,
                 batch_size_on_retry : 0..IdealMax]
    /\ n_samples \in 0..IdealMax
    /\ task_instance \in [max_crazycast_batch_size : IdealSizes]
    /\ pc = "call"
    /\ default_batch_size = 0
    /\ batch_size = 0
    /\ n_retries = 0
    /\ max_batch_size = NoneVal
    /\ valid_forecasts = <<>>
    /\ total_tokens = [input |-> 0, output |-> 0]
    /\ chat_completion = NoCompletion
    /\ choice_idx = 0
    /\ outcome = [kind |-> "running"]
    /\ n_requests = 0
    /\ request = [n |-> 0]
    /\ reported = [input |-> 0, output |-> 0]
    /\ requested_total = 0
    /\ round_before = 0
    /\ backend_raised = FALSE
    /\ EngineIdle
    /\ ParseIdle
    /\ ThreadIdle
    /\ CacheIdle
    /\ FormatIdle

IdealUsage == [prompt_tokens |-> 2, completion_tokens |-> 3]

(* lines 357-362 with a response of request.n valid candidates *)
IdealClientReturns ==
    /\ pc = "client"
    /\ chat_completion' = [choices |-> [i \in 1..request.n |-> TextA],
                           usage |-> IdealUsage]
    /\ total_tokens' = AddUsage(total_tokens, IdealUsage)
    /\ reported' = [input |-> reported.input + IdealUsage.prompt_tokens,
                    output |-> reported.output + IdealUsage.completion_tokens]
    /\ round_before' = Len(valid_forecasts)
    /\ choice_idx' = 1
    /\ pc' = "choice"
    /\ UNCHANGED <<self, n_samples, task_instance, default_batch_size, batch_size,
                   n_retries, max_batch_size, valid_forecasts, outcome, n_requests,
                   request, requested_total, backend_raised>>

NextIdeal ==
    \/ Enter /\ UNCHANGED outsideCall
    \/ IssueRequest /\ UNCHANGED outsideCall
    \/ LoopExit /\ UNCHANGED outsideCall
    \/ IdealClientReturns /\ UNCHANGED outsideCall
    \/ ParseChoice /\ UNCHANGED outsideCall
    \/ EndRound /\ UNCHANGED outsideCall
    \/ Finish /\ UNCHANGED outsideCall

SpecIdeal == InitIdeal /\ [][NextIdeal]_vars

(* ---------------- the parsing of one candidate, on its own -------------- *)
MaxLines == 3

ParseKeys == {"t1", "t2", "tx", "'t1'"}

ParseValues == {"1", "2", "abc"}

ParseLines ==
    {<<k, v>> : k \in ParseKeys, v \in ParseValues}
        \cup {<<"">>, <<"t1">>, <<"t1", "1", "x">>, <<"t2", "abc", "1">>}

ParseTexts ==
    {<<>>} \cup {<<block>> : block \in SeqsUpTo(ParseLines, MaxLines) \ {<<>>}}

InitParse ==
    /\ parse_input \in ParseTexts
    /\ parse_result = [state |-> "pending"]
    /\ CallIdle
    /\ EngineIdle
    /\ ThreadIdle
    /\ CacheIdle
    /\ FormatIdle

(* lines 367-395 applied to one candidate and an empty valid_forecasts *)
ParseCandidate ==
    /\ parse_result.state = "pending"
    /\ parse_result' = [state |-> "parsed",
                        parsed |-> ParseChoiceText(parse_input, future_time),
                        valid_forecasts |-> AcceptChoice(<<>>, parse_input)]
    /\ UNCHANGED <<parse_input, callVars, engineVars, threadVars, cacheVars,
                   formatVars>>

NextParse == ParseCandidate

SpecParse == InitParse /\ [][NextParse]_vars

Spec == Init /\ [][Next]_vars

(* the call keeps running: every step of the sequential code is taken, and *)
(* the client answers (or raises) every request                            *)
SpecLive == Init /\ [][Next]_vars /\ WF_vars(Next)

(* ======================= properties of __call__ ======================== *)
Cap == task_instance.max_crazycast_batch_size

(* number of candidates of a batch that parse validly, counted without     *)
(* regard to their positions                                               *)
ValidCount(choices) ==
    Cardinality({i \in DOMAIN choices :
                    ParseChoiceText(choices[i], future_time).ok})

(* the loop was left through its while test and lines 411-442 ran *)
Finished == pc = "done" /\ outcome.kind \in {"RuntimeError", "IndexError", "returned"}

(* C1: a call that returns normally returns at most n_samples rows, and    *)
(* exactly n_samples rows when fail_on_invalid is true.                    *)
C1_RowsBounded ==
    outcome.kind = "returned" =>
        /\ Len(outcome.samples) <= n_samples
        /\ self.fail_on_invalid => Len(outcome.samples) = n_samples

C1_Witness ==
    /\ outcome.kind = "returned"
    /\ self.fail_on_invalid
    /\ n_requests >= 2
    /\ round_before + ValidCount(chat_completion.choices) > n_samples
    /\ Len(outcome.samples) = n_samples

(* C2: the insufficient-samples error (RuntimeError of line 413) is raised *)
(* exactly when the loop exits with fewer than n_samples valid forecasts   *)
(* and fail_on_invalid is true, and it carries n_samples and the achieved  *)
(* count.                                                                  *)
C2_InsufficientSamples ==
    /\ outcome.kind = "RuntimeError" =>
          /\ self.fail_on_invalid
          /\ Len(valid_forecasts) < n_samples
          /\ outcome.requested = n_samples
          /\ outcome.got = Len(valid_forecasts)
    /\ (Finished /\ self.fail_on_invalid /\ Len(valid_forecasts) < n_samples) =>
          outcome.kind = "RuntimeError"

C2_Witness ==
    /\ outcome.kind = "RuntimeError"
    /\ outcome.requested = 2
    /\ outcome.got = 1
    /\ n_requests >= 2

(* C3: with fail_on_invalid false, a loop exit with k < n_samples valid    *)
(* forecasts (k = 0 included) returns a sample array of exactly k rows.    *)
C3_ShortResultReturned ==
    (Finished /\ n_requests > 0 /\ ~self.fail_on_invalid
       /\ Len(valid_forecasts) < n_samples) =>
        /\ outcome.kind = "returned"
        /\ Len(outcome.samples) = Len(valid_forecasts)

(* C4: on return the reported token totals are the sums of the usage of    *)
(* every response received during the call.                                *)
C4_TokenTotals ==
    outcome.kind = "returned" =>
        /\ outcome.extra_info.total_input_tokens = reported.input
        /\ outcome.extra_info.total_output_tokens = reported.output

(* a first round that accepted nothing, then a round whose accepted        *)
(* candidates were truncated                                               *)
C4_Witness ==
    /\ outcome.kind = "returned"
    /\ n_requests >= 2
    /\ round_before = 0
    /\ ValidCount(chat_completion.choices) > n_samples
    /\ reported.input >= 3

(* C5: a set batch_size with batch_size * n_retries < n_samples fails the  *)
(* call with the assertion before any request; with batch_size * n_retries *)
(* >= n_samples this precondition does not fail.                           *)
C5_CoveragePrecondition ==
    pc # "call" =>
        /\ (Truthy(self.batch_size)
              /\ self.batch_size * self.n_retries < n_samples) =>
                 (outcome.kind = "AssertionError" /\ n_requests = 0)
        /\ (Truthy(self.batch_size)
              /\ self.batch_size * self.n_retries >= n_samples
              /\ self.batch_size_on_retry <= self.batch_size) =>
                 outcome.kind # "AssertionError"

C5_Witness ==
    /\ pc = "done"
    /\ n_samples = 2
    /\ self.batch_size = 1
    /\ self.n_retries = 1
    /\ self.batch_size_on_retry = 1
    /\ outcome.kind = "AssertionError"
    /\ n_requests = 0

(* C6: batch_size_on_retry above the effective default batch size         *)
(* (batch_size when set, else n_samples) fails the call with the assertion *)
(* before any request.                                                     *)
C6_RetryBatchPrecondition ==
    (pc # "call"
       /\ self.batch_size_on_retry >
             (IF Truthy(self.batch_size) THEN self.batch_size ELSE n_samples)) =>
        (outcome.kind = "AssertionError" /\ n_requests = 0)

C6_Witness ==
    /\ pc = "done"
    /\ self.batch_size = NoneVal
    /\ n_samples > 0
    /\ n_samples < self.batch_size_on_retry
    /\ outcome.kind = "AssertionError"
    /\ n_requests = 0

(* C7: with a max_batch_size cap every request issued asks for at most     *)
(* max_batch_size candidates.                                              *)
C7_RequestsWithinCap ==
    (n_requests > 0 /\ Cap # NoneVal) => request.n <= Cap

C7_Witness ==
    /\ pc = "client"
    /\ n_requests >= 2
    /\ Cap # NoneVal
    /\ request.n = Cap
    /\ Cap < self.batch_size_on_retry
    /\ Cap < n_samples - Len(valid_forecasts)

(* Sum of the batch sizes of the rounds the configuration is permitted     *)
(* without a cap when nothing is ever accepted (lines 349-350, 354, 404).  *)
UncappedWorstCaseVolume ==
    IF n_samples > 0 /\ self.n_retries > 0
    THEN default_batch_size + (self.n_retries - 1) * self.batch_size_on_retry
    ELSE 0

(* the call ran under a cap to the end of its budget, no candidate accepted *)
CappedWorstCaseRun ==
    /\ pc = "finish"
    /\ Cap # NoneVal
    /\ Len(valid_forecasts) = 0
    /\ n_retries = 0

(* C8 as stated: under a cap the worst-case requested volume is at least   *)
(* the worst-case volume of the same configuration without the cap.        *)
C8_VolumePreserved ==
    CappedWorstCaseRun => requested_total >= UncappedWorstCaseVolume

(* C8 amended: the volume is preserved when the cap does not clamp the     *)
(* retry batches below batch_size_on_retry nor below the first capped      *)
(* batch: batch_size_on_retry <= max_batch_size and (default_batch_size    *)
(* <= n_samples or max_batch_size <= n_samples).                           *)
C8_VolumePreservedWhenRetriesUnclamped ==
    (CappedWorstCaseRun
       /\ self.batch_size_on_retry <= Cap
       /\ (default_batch_size <= n_samples \/ Cap <= n_samples)) =>
        requested_total >= UncappedWorstCaseVolume

C8_Witness ==
    /\ CappedWorstCaseRun
    /\ self.batch_size_on_retry <= Cap
    /\ Cap < default_batch_size
    /\ Cap <= n_samples
    /\ self.n_retries = 2
    /\ n_requests > self.n_retries
    /\ requested_total >= UncappedWorstCaseVolume

(* C9: without a cap the first request asks for the effective default      *)
(* batch size and every later request for batch_size_on_retry, whatever    *)
(* the earlier rounds produced.                                            *)
C9_UncappedBatchSizes ==
    (n_requests > 0 /\ Cap = NoneVal) =>
        request.n = IF n_requests = 1
                    THEN (IF Truthy(self.batch_size) THEN self.batch_size
                                                     ELSE n_samples)
                    ELSE self.batch_size_on_retry

C9_Witness ==
    /\ pc = "client"
    /\ Cap = NoneVal
    /\ n_requests = 2
    /\ Len(valid_forecasts) = 1
    /\ n_samples = 2
    /\ self.batch_size = 3
    /\ request.n = 1

(* C10: after a round the number of valid forecasts is min(n_samples,      *)
(* count before the round + number of candidates of the round that parse   *)
(* validly), wherever the invalid candidates stand in the batch, and the   *)
(* call is still running.                                                  *)
C10_RoundKeepsValidCandidates ==
    (pc = "while" /\ n_requests > 0) =>
        /\ Len(valid_forecasts) =
              Min(n_samples, round_before + ValidCount(chat_completion.choices))
        /\ outcome.kind = "running"

C10_Witness ==
    /\ pc = "while"
    /\ n_requests > 0
    /\ chat_completion.choices = <<TextMissing, TextA>>
    /\ round_before = 0
    /\ Len(valid_forecasts) = 1
    /\ n_samples = 2

(* C13: when the client raises, the exception leaves the call as it is: no *)
(* further request is issued, and neither samples nor a usage report are   *)
(* delivered, whatever was accepted in earlier rounds.                     *)
C13_BackendErrorPropagates ==
    backend_raised =>
        /\ pc = "done"
        /\ outcome = [kind |-> "BackendError"]

C13_Witness ==
    /\ backend_raised
    /\ outcome.kind = "BackendError"
    /\ n_requests >= 2
    /\ Len(valid_forecasts) >= 1

(* ====================== properties of the parsing ====================== *)
Parsed == parse_result.state = "parsed"

InputLines == parse_input[1]

(* a line that is a timestamp (quoted or not) and a numeral, nothing else *)
WellFormedPair(line) == Len(line) = 2 /\ line[2] \in {"1", "2"}

Timestamp(line) == StripQuotes(line[1])

NumeralValue(v) == IF v = "1" THEN 1 ELSE 2

(* the value the text gives for timestamp t, when exactly one line has it *)
ValueAt(t) ==
    NumeralValue(InputLines[CHOOSE i \in DOMAIN InputLines :
                                Timestamp(InputLines[i]) = t][2])

(* C14: a block with one well-formed pair per target timestamp, distinct   *)
(* timestamps, in any order and with any extra pairs for other timestamps, *)
(* parses to the H values in target order.                                 *)
C14_ParseInTargetOrder ==
    (/\ Parsed
     /\ Len(parse_input) > 0
     /\ \A i \in DOMAIN InputLines : WellFormedPair(InputLines[i])
     /\ \A i, j \in DOMAIN InputLines :
           i # j => Timestamp(InputLines[i]) # Timestamp(InputLines[j])
     /\ \A k \in DOMAIN future_time :
           \E i \in DOMAIN InputLines : Timestamp(InputLines[i]) = future_time[k])
    => /\ parse_result.parsed.ok
       /\ parse_result.parsed.forecast =
             [k \in DOMAIN future_time |-> ValueAt(future_time[k])]
       /\ parse_result.valid_forecasts = <<parse_result.parsed.forecast>>

C14_Witness ==
    /\ Parsed
    /\ parse_input = << << <<"t2", "1">>, <<"tx", "1">>, <<"'t1'", "2">> >> >>
    /\ parse_result.parsed.forecast = <<2, 1>>

(* C15: a block that lacks a pair for some target timestamp is rejected    *)
(* and never appended to valid_forecasts, even when all its pairs are      *)
(* well-formed.                                                            *)
C15_MissingTimestampRejected ==
    (/\ Parsed
     /\ Len(parse_input) > 0
     /\ \E k \in DOMAIN future_time :
           \A i \in DOMAIN InputLines :
              Len(InputLines[i]) < 2 \/ Timestamp(InputLines[i]) # future_time[k])
    => /\ ~parse_result.parsed.ok
       /\ parse_result.valid_forecasts = <<>>

C15_Witness ==
    /\ Parsed
    /\ parse_input = << << <<"t1", "1">>, <<"tx", "2">> >> >>
    /\ ~parse_result.parsed.ok
    /\ parse_result.valid_forecasts = <<>>

(* C16: a candidate is rejected whenever a line of its block is not        *)
(* exactly a timestamp and a numeric value: fewer than two fields, more    *)
(* than two fields, or a second field that is no float.                    *)
C16_MalformedLineRejected ==
    (/\ Parsed
     /\ Len(parse_input) > 0
     /\ \E i \in DOMAIN InputLines :
           Len(InputLines[i]) # 2 \/ InputLines[i][2] \notin {"1", "2"})
    => ~parse_result.parsed.ok

(* ---------------- properties of the engine over several calls ---------- *)
Returned == pc = "done" /\ outcome.kind = "returned"

(* C11: on a successful return llm_outputs is exactly the sequence of the  *)
(* raw texts of every candidate the backend returned during the call, in   *)
(* the order they were emitted, whether accepted, rejected or truncated;   *)
(* its length is the total number of choices received.                     *)
C11_AllOutputsRecorded ==
    Returned =>
        /\ outcome.extra_info.llm_outputs = emitted
        /\ Len(outcome.extra_info.llm_outputs) = Len(emitted)

(* a call of two rounds that returns having received a rejected candidate, *)
(* and an accepted one that truncation dropped                             *)
C11_Witness ==
    /\ Returned
    /\ n_requests = 2
    /\ \E i \in DOMAIN emitted : ~ParseChoiceText(emitted[i], future_time).ok
    /\ Len(accepted_log) > Len(outcome.samples)
    /\ outcome.extra_info.llm_outputs = emitted

(* C12: the rows returned are the first min(n_samples, accepted)           *)
(* accepted forecasts in the order of acceptance; truncation only removes  *)
(* a suffix.                                                               *)
C12_FirstAcceptedKept ==
    Returned =>
        outcome.samples =
            SubSeq(accepted_log, 1, Min(n_samples, Len(accepted_log)))

(* more forecasts were accepted than asked for, and the dropped one        *)
(* differs from the kept one                                               *)
C12_Witness ==
    /\ Returned
    /\ Len(accepted_log) > n_samples
    /\ accepted_log[Len(accepted_log)] # accepted_log[1]
    /\ outcome.samples = SubSeq(accepted_log, 1, n_samples)

(* the cost of the usage reported by the backend during the call, in       *)
(* tenths of a cent                                                        *)
ReportedCostTenths ==
    reported.input * token_cost.input + reported.output * token_cost.output

(* C17: with a token cost table, total_token_cost is computed once from    *)
(* the cumulative token totals of the call, as the nearest cent of         *)
(* input / 1000 * price_in + output / 1000 * price_out, not as a sum of    *)
(* per-round rounded costs; without a table the result has no cost field   *)
(* and total_cost is left as it was.                                       *)
C17_CostFromCumulativeTotals ==
    /\ (Returned /\ token_cost # NoTokenCost) =>
          /\ "total_token_cost" \in DOMAIN outcome.extra_info
          /\ 10 * outcome.extra_info.total_token_cost - 5 <= ReportedCostTenths
          /\ ReportedCostTenths <= 10 * outcome.extra_info.total_token_cost + 5
    /\ (Returned /\ token_cost = NoTokenCost) =>
          "total_token_cost" \notin DOMAIN outcome.extra_info
    /\ token_cost = NoTokenCost => total_cost = 0

(* two rounds that each cost less than half a cent, together one cent      *)
C17_Witness ==
    /\ Returned
    /\ token_cost # NoTokenCost
    /\ n_requests = 2
    /\ reported = [input |-> 2, output |-> 0]
    /\ CurrentCost([input |-> 1, output |-> 0], token_cost) = 0
    /\ outcome.extra_info.total_token_cost = 1

(* C18: after any sequence of sequential calls on an engine with a token   *)
(* cost table, total_cost equals the sum of the total_token_cost values    *)
(* reported by those calls.                                                *)
C18_TotalCostIsSumOfReported ==
    pc = "done" => total_cost = reported_cost

(* C19: when several calls run at the same time on one engine, under every *)
(* interleaving of their steps the final total_cost is the sum of the      *)
(* costs of all completed calls.                                           *)
C19_NoLostUpdate ==
    (\A t \in Threads : thread_pc[t] = "done") => total_cost = reported_cost

(* the parameters the cache key is said to depend on *)
KeyParameters(e) ==
    IF StartsWith(e.model, "gpt")
    THEN <<e.model, e.use_context, e.fail_on_invalid, e.n_retries, 0>>
    ELSE <<e.model, e.use_context, e.fail_on_invalid, e.n_retries, e.temperature>>

(* C20: the cache key is a function of (model, use_context,                *)
(* fail_on_invalid, n_retries), plus temperature only when the model is    *)
(* not a 'gpt' model: two engines have the same key exactly when they      *)
(* agree on these, whatever their batch_size, batch_size_on_retry,         *)
(* token_cost and dry_run; and the key of an engine is the same after any  *)
(* number of calls as after construction.                                  *)
C20_CacheKeyFunction ==
    /\ \A i, j \in DOMAIN engines :
          (key_now[i] = key_now[j])
              <=> (KeyParameters(engines[i]) = KeyParameters(engines[j]))
    /\ \A i \in DOMAIN engines : key_now[i] = key_first[i]

(* two 'gpt' engines that differ in temperature and in every parameter     *)
(* outside the key, one of them called and charged, with the same key      *)
C20_Witness ==
    /\ DOMAIN engines = 1..2
    /\ StartsWith(engines[1].model, "gpt")
    /\ engines[1].temperature # engines[2].temperature
    /\ engines[1].batch_size # engines[2].batch_size
    /\ engines[1].batch_size_on_retry # engines[2].batch_size_on_retry
    /\ engines[1].token_cost # engines[2].token_cost
    /\ engines[1].dry_run # engines[2].dry_run
    /\ engine_calls[1] > 0
    /\ engines[1].total_cost > 0
    /\ key_now[1] = key_now[2]
    /\ key_now[1] = "CrazyCast_model=gpt-4o_use_context=True_fail_on_invalid=False_n_retries=3"

(* ---------------- properties of the prompt's number format ------------- *)
(* C21: a history value y is written in fixed-point zero-decimal format    *)
(* exactly when |y| reaches 10^max_digits, and in general format           *)
(* otherwise; this holds for every y, negative values included.            *)
C21_FixedExactlyWhenMagnitudeLarge ==
    format_result.state = "written" =>
        /\ format_result.fixed <=>
              Abs(format_input.y) >= Pow10(format_input.max_digits)
        /\ format_result.text =
              IF Abs(format_input.y) >= Pow10(format_input.max_digits)
              THEN FormatF0(format_input.y)
              ELSE FormatG(format_input.y, format_input.max_digits)

(* ---------------- properties of a call among other calls --------------- *)
(* C22: per-call state does not leak between calls.  Each call enters its  *)
(* loop with zero usage counters, no valid forecast, no raw output and the *)
(* retry budget of the configuration; the configuration is never changed   *)
(* by a call, also when a cap granted extra retries; the usage a call      *)
(* reports is the usage of its own responses; and within a call the usage  *)
(* counters never decrease.                                                *)
C22_NoLeakBetweenCalls ==
    /\ [](/\ (pc = "while" /\ n_requests = 0) =>
                /\ total_tokens = [input |-> 0, output |-> 0]
                /\ valid_forecasts = <<>>
                /\ llm_outputs = <<>>
                /\ n_retries = IF max_batch_size # NoneVal
                               THEN self.n_retries + default_batch_size
                                        \div Min(default_batch_size, max_batch_size)
                               ELSE self.n_retries
          /\ Returned =>
                /\ outcome.extra_info.total_input_tokens = reported.input
                /\ outcome.extra_info.total_output_tokens = reported.output
                /\ outcome.samples =
                      SubSeq(ValidForecastsOf(emitted), 1, Len(outcome.samples)))
    /\ [][/\ self' = self
          /\ calls_made' = calls_made =>
                /\ total_tokens'.input >= total_tokens.input
                /\ total_tokens'.output >= total_tokens.output]_vars

(* a second call enters its loop after a first call that used tokens, was  *)
(* charged and was granted an extra retry by the cap                       *)
C22_Witness ==
    /\ calls_made = 2
    /\ pc = "while"
    /\ n_requests = 0
    /\ total_cost > 0
    /\ max_batch_size # NoneVal
    /\ n_retries > self.n_retries
    /\ total_tokens = [input |-> 0, output |-> 0]

(* C28: a call that ends with an exception after a response was received   *)
(* leaves total_cost as it was before the call; total_cost is only changed *)
(* by calls that return normally.                                          *)
C28_CostChangedOnlyByReturningCalls ==
    [][total_cost' # total_cost => outcome'.kind = "returned"]_vars

(* ---------------- properties of the loop of one call ------------------- *)
(* C23: a generation request is issued only in a state where               *)
(* len(valid_forecasts) < n_samples and the remaining retries are          *)
(* positive, so none is issued once n_samples forecasts are collected or   *)
(* with a budget of 0; and what was accepted so far (up to n_samples) is   *)
(* retained by every later step.                                           *)
C23_RequestOnlyWhileNeeded ==
    [][/\ n_requests' > n_requests =>
              Len(valid_forecasts) < n_samples /\ n_retries > 0
       /\ Len(valid_forecasts') >= Min(Len(valid_forecasts), n_samples)
       /\ SubSeq(valid_forecasts', 1, Min(Len(valid_forecasts), n_samples))
             = SubSeq(valid_forecasts, 1, Min(Len(valid_forecasts), n_samples))]_vars

(* a call that returned after one request although retries were left      *)
C23_Witness ==
    /\ pc = "done"
    /\ outcome.kind = "returned"
    /\ n_requests = 1
    /\ n_retries > 0
    /\ Len(valid_forecasts) = n_samples

(* the retry budget of the call as the claim states it *)
ClaimedBudget ==
    IF max_batch_size # NoneVal
    THEN self.n_retries
           + default_batch_size \div Min(default_batch_size, max_batch_size)
    ELSE self.n_retries

(* the call got past its preconditions and the setup of lines 344-350 *)
Entered ==
    \/ pc \in {"while", "client", "choice", "finish"}
    \/ pc = "done" /\ outcome.kind \in {"returned", "RuntimeError", "IndexError",
                                         "BackendError"}

(* a request has been issued whose round is not over yet *)
RoundOpen == pc \in {"client", "choice"} \/ (pc = "done" /\ backend_raised)

(* C24: every call terminates (the client answering every request); it     *)
(* issues at most n_retries requests without a cap and at most n_retries   *)
(* + default_batch_size // min(default_batch_size, max_batch_size) with    *)
(* one; each request consumes exactly one unit of the retry budget, so the *)
(* number of client invocations is the initial budget less the remaining   *)
(* budget.                                                                 *)
C24_TerminatesWithinBudget ==
    /\ <>(pc = "done")
    /\ [](/\ ~Entered => n_requests = 0
          /\ Entered =>
                /\ n_retries >= 0
                /\ n_requests <= ClaimedBudget
                /\ n_requests = ClaimedBudget - n_retries
                                  + (IF RoundOpen THEN 1 ELSE 0))

(* a capped call that used its whole budget, extra retries included        *)
C24_Witness ==
    /\ pc = "done"
    /\ outcome.kind = "RuntimeError"
    /\ max_batch_size # NoneVal
    /\ n_retries = 0
    /\ n_requests = ClaimedBudget
    /\ n_requests > self.n_retries

(* C25: 0 <= len(valid_forecasts) <= n_samples at every point of the loop, *)
(* the points inside a round between the acceptance of the candidates of   *)
(* one batch and before the end-of-round truncation included.              *)
C25_ValidCountWithinTarget ==
    pc \in {"while", "client", "choice"} =>
        0 <= Len(valid_forecasts) /\ Len(valid_forecasts) <= n_samples

(* C25, amended: the bound holds whenever the loop test is evaluated, when *)
(* a request is out and after the loop; inside a round the list holds what *)
(* the round started with (fewer than n_samples) plus what was accepted    *)
(* from the candidates parsed so far.                                      *)
C25_ValidCountWithinTargetBetweenRounds ==
    /\ pc \in {"while", "client", "finish"} =>
          0 <= Len(valid_forecasts) /\ Len(valid_forecasts) <= n_samples
    /\ pc = "choice" =>
          /\ round_before < n_samples
          /\ Len(valid_forecasts) =
                round_before
                  + ValidCount(SubSeq(chat_completion.choices, 1, choice_idx - 1))

(* the loop test after a round that had collected more than n_samples      *)
C25_Witness ==
    /\ pc = "while"
    /\ n_requests >= 1
    /\ round_before + ValidCount(chat_completion.choices) > n_samples
    /\ Len(valid_forecasts) = n_samples

(* C26: under a cap, every retry request that is issued asks for           *)
(* min(max(remaining_needed, batch_size_on_retry), max_batch_size) with    *)
(* remaining_needed = n_samples - len(valid_forecasts) taken after the     *)
(* truncation, although the code computes the size before truncating.      *)
C26_RetryBatchMatchesPostTruncationPolicy ==
    (pc = "client" /\ n_requests >= 2 /\ max_batch_size # NoneVal) =>
        request.n = Min(Max(n_samples - Len(valid_forecasts),
                            self.batch_size_on_retry),
                        max_batch_size)

(* a retry under a cap that asks for what is still missing, which is more  *)
(* than batch_size_on_retry and less than n_samples                        *)
C26_Witness ==
    /\ pc = "client"
    /\ n_requests >= 2
    /\ max_batch_size # NoneVal
    /\ Len(valid_forecasts) >= 1
    /\ request.n = n_samples - Len(valid_forecasts)
    /\ request.n > self.batch_size_on_retry

(* C29: for every configuration that passes the call-time preconditions    *)
(* and every n_samples >= 1, every generation request issued, the first    *)
(* and every retry, with or without a cap, asks for n >= 1 candidates.     *)
C29_RequestsAskForAtLeastOne ==
    (pc = "client" /\ n_samples >= 1) => request.n >= 1

(* ---------------- properties of a call with an ideal backend ----------- *)
PassedPreconditions == pc = "done" /\ outcome.kind # "AssertionError"

ReturnedAllRows ==
    outcome.kind = "returned" /\ Len(outcome.samples) = n_samples

(* C27: the call-time preconditions are sufficient for the retry budget to *)
(* reach the target: for every configuration that passes both, with or     *)
(* without a cap, a backend that returns exactly the requested number of   *)
(* valid candidates makes the call return exactly n_samples rows without   *)
(* raising.                                                                *)
C27_PreconditionsSuffice == PassedPreconditions => ReturnedAllRows

(* the first batch of the configuration, before any cap *)
ConfiguredFirstBatch ==
    IF Truthy(self.batch_size) THEN self.batch_size ELSE n_samples

(* C27, amended: the preconditions are necessary, not sufficient.  With    *)
(* n_samples >= 1 and the ideal backend, a call without a cap returns      *)
(* exactly n_samples rows if and only if n_retries >= 1 and the first      *)
(* batch plus n_retries - 1 batches of batch_size_on_retry reach           *)
(* n_samples; a call under a cap does so whenever its first request,       *)
(* min(default_batch_size, cap), already covers n_samples.                 *)
C27_ReachesTargetWhenVolumeCovers ==
    (PassedPreconditions /\ n_samples >= 1) =>
        IF task_instance.max_crazycast_batch_size = NoneVal
        THEN ReturnedAllRows <=>
                /\ self.n_retries >= 1
                /\ ConfiguredFirstBatch
                     + (self.n_retries - 1) * self.batch_size_on_retry >= n_samples
        ELSE Min(ConfiguredFirstBatch, task_instance.max_crazycast_batch_size)
                >= n_samples
             => ReturnedAllRows /\ n_requests = 1

(* a call without a cap that needed its retries to reach the target        *)
C27_Witness ==
    /\ PassedPreconditions
    /\ task_instance.max_crazycast_batch_size = NoneVal
    /\ ReturnedAllRows
    /\ n_samples >= 3
    /\ n_requests >= 2

(* ---------------- properties of a cap that does not bind --------------- *)
NonBindingCap ==
    Entered /\ max_batch_size # NoneVal /\ max_batch_size >= default_batch_size

OpenRounds == IF RoundOpen THEN 1 ELSE 0

(* C30: a cap with max_batch_size >= default_batch_size does not change    *)
(* behaviour: the call is permitted the same number of rounds and issues   *)
(* requests of the same sizes as when no cap is advertised, hence returns  *)
(* the same result for the same backend responses.                         *)
C30_NonBindingCapChangesNothing ==
    NonBindingCap =>
        /\ n_requests + n_retries - OpenRounds
              = RetryBudget(self.n_retries, default_batch_size, NoneVal)
        /\ (pc = "client" /\ n_requests = 1) =>
              request.n = FirstBatchSize(default_batch_size, NoneVal)
        /\ (pc = "client" /\ n_requests >= 2) =>
              request.n = NextBatchSize(self, n_samples, Len(valid_forecasts),
                                        NoneVal)

(* C30, amended: a cap that does not bind keeps the size of the first      *)
(* request, but the call is permitted exactly one more round than without  *)
(* a cap, and every retry asks for min(max(remaining, batch_size_on_retry),*)
(* max_batch_size), which is never less than the batch_size_on_retry asked *)
(* without a cap and is more exactly when both the number of forecasts     *)
(* still missing and the cap exceed batch_size_on_retry.                   *)
C30_NonBindingCapAddsOneRound ==
    NonBindingCap =>
        /\ n_requests + n_retries - OpenRounds = self.n_retries + 1
        /\ (pc = "client" /\ n_requests = 1) => request.n = default_batch_size
        /\ (pc = "client" /\ n_requests >= 2) =>
              /\ request.n = Min(Max(n_samples - Len(valid_forecasts),
                                     self.batch_size_on_retry),
                                 max_batch_size)
              /\ request.n >= self.batch_size_on_retry
              /\ request.n > self.batch_size_on_retry <=>
                    /\ n_samples - Len(valid_forecasts) > self.batch_size_on_retry
                    /\ max_batch_size > self.batch_size_on_retry

(* a call under a non-binding cap that returned a full result thanks to    *)
(* the extra round, with a retry larger than batch_size_on_retry           *)
C30_Witness ==
    /\ NonBindingCap
    /\ pc = "done"
    /\ outcome.kind = "returned"
    /\ n_requests = self.n_retries + 1
    /\ round_before < n_samples
    /\ Len(outcome.samples) = n_samples
    /\ request.n > self.batch_size_on_retry

====
